---- MODULE Spec2Model ----
(***************************************************************************)
(* A model of devpulse's multi-source search: the source adapters with     *)
(* their progressive-refinement retry (api/services/sources), the search   *)
(* orchestrators (SynthSearchServiceV2.search, search_with_intent and      *)
(* SynthV2Service._search_with_sources) and the Supabase-backed result     *)
(* cache (SearchCacheService).                                             *)
(***************************************************************************)
EXTENDS Integers, Sequences, FiniteSets, TLC

VARIABLES
    ad,      \* one call of a source adapter's search(), step by step
    reqs,    \* the search requests in flight: request id -> its state
    cache,   \* the rows of the search_cache table, in insertion order
    now      \* the wall clock, in hours

vars == <<ad, reqs, cache, now>>

(***************************************************************************)
(* Sequences                                                               *)
(***************************************************************************)
Min(a, b) == IF a <= b THEN a ELSE b

Take(s, n) == SubSeq(s, 1, Min(n, Len(s)))

Range(s) == {s[i] : i \in 1..Len(s)}

\* list.sort(key=Key, reverse=True): descending and stable, so elements with
\* equal keys keep the order they had.
RECURSIVE InsertDesc(_, _, _)
InsertDesc(x, kx, s) ==
    \* s is a sequence of <<key, element>> pairs sorted descending by key
    IF s = << >> THEN << <<kx, x>> >>
    ELSE IF Head(s)[1] >= kx THEN << Head(s) >> \o InsertDesc(x, kx, Tail(s))
    ELSE << <<kx, x>> >> \o s

\* Insertion sort of a sequence of <<key, element>> pairs.
RECURSIVE SortPairsDesc(_)
SortPairsDesc(p) ==
    IF p = << >> THEN << >>
    ELSE LET n == Len(p)
         IN InsertDesc(p[n][2], p[n][1], SortPairsDesc(SubSeq(p, 1, n - 1)))

\* The place of name in the sequence order.
Position(order, name) == CHOOSE i \in 1..Len(order) : order[i] = name

SortDescBy(s, Key(_)) ==
    LET p == SortPairsDesc([i \in 1..Len(s) |-> <<Key(s[i]), s[i]>>])
    IN [i \in 1..Len(p) |-> p[i][2]]

(***************************************************************************)
(* Search results and the backends' catalogues                             *)
(***************************************************************************)
\* The adapters the orchestrator fans out to in this model.
GitHub == "github"
HackerNews == "hackernews"
DevTo == "devto"

AdapterKinds == {GitHub, HackerNews, DevTo}

\* A backend item belongs to a tier by its native score (stars, points,
\* reactions): the tiers sit on either side of the adapters' thresholds.
Tiers == <<"high", "mid", "low", "zero">>

TierScore(t) ==
    CASE t = "high" -> 12
      [] t = "mid"  -> 7
      [] t = "low"  -> 3
      [] OTHER      -> 0

TierBase(t) ==
    CASE t = "high" -> 100
      [] t = "mid"  -> 200
      [] t = "low"  -> 300
      [] OTHER      -> 400

\* A URL is <<scheme+host+path, query string>>; 0 is the empty query string.
\* HackerNews stories link to pages, and several stories may link to one
\* page: in a catalogue with dup set the first mid story links to the page
\* of the first high story.  Stories also link to the repositories GitHub
\* lists: the first high story to the first high repository, the second one
\* to the second high repository with a query string appended.
ItemUrl(kind, t, k, dup) ==
    IF kind = HackerNews /\ dup /\ t = "mid" /\ k = 1 THEN <<TierBase("high") + 1, 0>>
    ELSE IF kind = HackerNews /\ t = "high" /\ k = 1 THEN <<TierBase(t) + k, 0>>
    ELSE IF kind = HackerNews /\ t = "high" /\ k = 2 THEN <<TierBase(t) + k, 1>>
    ELSE IF kind = HackerNews THEN <<TierBase(t) + 50 + k, 0>>
    ELSE IF kind = DevTo THEN <<TierBase(t) + 70 + k, 0>>
    ELSE <<TierBase(t) + k, 0>>

\* The relevance the scorer gives an item; independent of its native score.
ItemRelevance(t, k) == IF k % 2 = 1 THEN 80 ELSE 40

\* SearchResult(url, source, score, metadata['relevance_score'])
MkResult(kind, t, k, dup) ==
    [url |-> ItemUrl(kind, t, k, dup),
     source |-> kind,
     score |-> TierScore(t) + (IF kind = HackerNews /\ t = "high" THEN 3 ELSE 0),
     relevance_score |-> ItemRelevance(t, k)]

\* The items a backend holds, in the order the backend lists them.
MaxHigh == 5
MaxMid == 6
MaxLow == 1
MaxZero == 1

Catalogues(kind) ==
    [high : 0..MaxHigh, mid : 0..MaxMid, low : 0..MaxLow, zero : 0..MaxZero,
     dup : IF kind = HackerNews THEN BOOLEAN ELSE {FALSE}]

TierItems(kind, cat, t) == [k \in 1..cat[t] |-> MkResult(kind, t, k, cat.dup)]

CatalogueItems(kind, cat) ==
    TierItems(kind, cat, "high") \o TierItems(kind, cat, "mid")
        \o TierItems(kind, cat, "low") \o TierItems(kind, cat, "zero")

(***************************************************************************)
(* Source adapters: GitHubSource, HackerNewsSource, DevToSource            *)
(***************************************************************************)
\* min_stars / min_points / min_reactions when the caller passes none (the
\* orchestrators never pass one).
GitHubMinStars == 5
HackerNewsMinPoints == 10
DevToMinReactions == 5

\* The threshold of the fallback query.
GitHubFallbackStars == 0
HackerNewsFallbackPoints == 5
DevToFallbackReactions == 0

\* "if len(results) < 5": below this many results the adapter retries.
RefineBelow == 5

\* The largest page an adapter asks its backend for.
MaxPage == 100

\* The threshold a query carries: "stars:>5" is [op |-> ">", n |-> 5],
\* "points>=10" is [op |-> ">=", n |-> 10].
StrictFilter(kind) ==
    CASE kind = GitHub     -> [op |-> ">", n |-> GitHubMinStars]
      [] kind = HackerNews -> [op |-> ">=", n |-> HackerNewsMinPoints]
      [] OTHER             -> [op |-> ">=", n |-> DevToMinReactions]

RelaxedFilter(kind) ==
    CASE kind = GitHub     -> [op |-> ">", n |-> GitHubFallbackStars]
      [] kind = HackerNews -> [op |-> ">=", n |-> HackerNewsFallbackPoints]
      [] OTHER             -> [op |-> ">=", n |-> DevToFallbackReactions]

Admits(f, score) == IF f.op = ">" THEN score > f.n ELSE score >= f.n

\* The least native score a query's threshold lets through.
MinAdmitted(f) == IF f.op = ">" THEN f.n + 1 ELSE f.n

KeyScore(r) == r.score

\* The key (relevance_score, score), as one number: scores stay below 1000.
KeyRelevanceScore(r) == r.relevance_score * 1000 + r.score

\* The page the backend answers a query with.  GitHub and HackerNews filter
\* on the server; Dev.to returns a page of articles whatever the threshold.
BackendPage(kind, cat, f, limit) ==
    IF kind = DevTo
    THEN Take(CatalogueItems(kind, cat), Min(limit * 3, MaxPage))
    ELSE Take(SelectSeq(CatalogueItems(kind, cat), LAMBDA r : Admits(f, r.score)),
              Min(limit * 2, MaxPage))

\* _sync_search: one backend query.  A status other than 200 and any
\* exception (a timeout among them) end in "return []".
SyncSearch(kind, cat, f, limit, ok) ==
    IF ~ok THEN << >>
    ELSE LET page == BackendPage(kind, cat, f, limit)
             kept == IF kind = DevTo
                     THEN SelectSeq(page, LAMBDA r : Admits(f, r.score))
                     ELSE page
         IN Take(SortDescBy(kept, KeyRelevanceScore), limit)

\* The retry decision with the comparison off by one.
NeedsRefinementAtFive(kind, results) ==
    /\ Len(results) <= RefineBelow
    /\ StrictFilter(kind).n > RelaxedFilter(kind).n

\* "if len(results) < 5 and min_stars > 0"
NeedsRefinement(kind, results) ==
    /\ Len(results) < RefineBelow
    /\ StrictFilter(kind).n > RelaxedFilter(kind).n

\* The merge without the seen_urls test.
MergeFallbackKeepingAll(results, fallback) == results \o fallback

\* "seen_urls = {r.url for r in results}; for r in fallback_results: ..."
RECURSIVE MergeFallback(_, _)
MergeFallback(results, fallback) ==
    IF fallback = << >> THEN results
    ELSE IF \E i \in 1..Len(results) : results[i].url = Head(fallback).url
         THEN MergeFallback(results, Tail(fallback))
         ELSE MergeFallback(Append(results, Head(fallback)), Tail(fallback))

\* The re-sort after the merge: GitHub by stars, the others by
\* (relevance_score, score).
Resort(kind, results) ==
    IF kind = GitHub THEN SortDescBy(results, KeyScore)
    ELSE SortDescBy(results, KeyRelevanceScore)

\* "return results[:limit]"
Truncate(results, limit) == Take(results, limit)

\* The whole of search(): what the call returns when its two backend
\* queries end as ok1 and ok2 say.
AdapterSearch(kind, cat, limit, ok1, ok2) ==
    LET strict == SyncSearch(kind, cat, StrictFilter(kind), limit, ok1)
    IN IF NeedsRefinement(kind, strict)
       THEN Truncate(Resort(kind,
                MergeFallback(strict,
                    SyncSearch(kind, cat, RelaxedFilter(kind), limit, ok2))), limit)
       ELSE Truncate(strict, limit)

(***************************************************************************)
(* One call of an adapter's search(), step by step                         *)
(***************************************************************************)
\* "result_limit = intent.get('limit') or 15", and a limit the query names
\* ("top 3").
DefaultLimit == 15
SmallLimit == 3

Limits == {SmallLimit, DefaultLimit}

\* The value of ad while no adapter call is being followed.
NoCall == [pc |-> "off"]

AdapterInit ==
    /\ \E kind \in AdapterKinds : \E limit \in Limits : \E cat \in Catalogues(kind) :
          ad = [pc |-> "start", kind |-> kind, limit |-> limit, cat |-> cat,
                attempts |-> << >>, strict |-> << >>, fallback |-> << >>,
                results |-> << >>, out |-> [status |-> "pending"]]
    /\ reqs = << >>
    /\ cache = << >>
    /\ now = 0

\* The first query, under the strict threshold, and the decision to retry.
AStrict ==
    /\ ad.pc = "start"
    /\ \E ok \in BOOLEAN :
         LET f == StrictFilter(ad.kind)
             res == SyncSearch(ad.kind, ad.cat, f, ad.limit, ok)
         IN ad' = [ad EXCEPT !.attempts = Append(@, [filter |-> f, ok |-> ok]),
                             !.strict = res,
                             !.results = res,
                             !.pc = IF NeedsRefinement(ad.kind, res)
                                    THEN "refine" ELSE "return"]
    /\ UNCHANGED <<reqs, cache, now>>

\* The fallback query, merged into the strict results and re-sorted.
ARefine ==
    /\ ad.pc = "refine"
    /\ \E ok \in BOOLEAN :
         LET f == RelaxedFilter(ad.kind)
             res == SyncSearch(ad.kind, ad.cat, f, ad.limit, ok)
         IN ad' = [ad EXCEPT !.attempts = Append(@, [filter |-> f, ok |-> ok]),
                             !.fallback = res,
                             !.results = Resort(ad.kind, MergeFallback(ad.results, res)),
                             !.pc = "return"]
    /\ UNCHANGED <<reqs, cache, now>>

\* "return results[:limit]"
AReturn ==
    /\ ad.pc = "return"
    /\ ad' = [ad EXCEPT !.out = [status |-> "returned",
                                  results |-> Truncate(ad.results, ad.limit)],
                        !.pc = "done"]
    /\ UNCHANGED <<reqs, cache, now>>

\* "await loop.run_in_executor(...)" raises (the executor is shut down, the
\* task is cancelled): the exception leaves search().
AExecutorError ==
    /\ ad.pc \in {"start", "refine"}
    /\ ad' = [ad EXCEPT !.out = [status |-> "raised"], !.pc = "done"]
    /\ UNCHANGED <<reqs, cache, now>>

AdapterNext == AStrict \/ ARefine \/ AReturn \/ AExecutorError

AdapterSpec == AdapterInit /\ [][AdapterNext]_vars

(***************************************************************************)
(* Queries and intents                                                     *)
(***************************************************************************)
\* The queries of the model.
Queries == {"rust repo hn", "top 3 rust repo hn"}

\* A source name no adapter is registered under.
Unregistered == "medium"

\* The names in SourceRegistry._sources after _register_sources.
RegistrationOrder ==
    <<GitHub, "reddit", HackerNews, DevTo, "stocks", "crypto", "ign", "pcgamer">>

Registered == {GitHub, "reddit", HackerNews, DevTo, "stocks", "crypto", "ign", "pcgamer"}

\* None
None == "None"

\* The limit of an intent whose query names none (None).
NoLimit == 0

\* _detect_limit: "top 3" names a limit, a query without a number none.
DetectLimit(query) == IF query = "top 3 rust repo hn" THEN SmallLimit ELSE NoLimit

\* parse_search_intent: no explicit source marker ("on github") in these
\* queries, so the sources are those whose keywords occur in the text, in
\* the order of source_keywords ('repo' -> github, 'hn' -> hackernews);
\* 'rust' is the language; no word is left as a keyword.
ParseSearchIntent(query) ==
    [sources |-> <<GitHub, HackerNews>>,
     language |-> "Rust",
     keywords |-> << >>,
     time_filter |-> None,
     limit |-> DetectLimit(query)]

\* The intent search_with_intent builds from the classifier's output.
ClassifiedIntent(sources, time_sensitive) ==
    [sources |-> sources,
     language |-> None,
     keywords |-> << >>,
     time_filter |-> IF time_sensitive THEN "week" ELSE None,
     limit |-> DefaultLimit]

\* What the classifier hands search_with_intent, and the source lists the
\* agents hand _search_with_sources.
Classifications ==
    {[sources |-> <<HackerNews, GitHub>>, time_sensitive |-> TRUE],
     [sources |-> <<GitHub, Unregistered>>, time_sensitive |-> FALSE]}
SuggestedSources == {<<GitHub, HackerNews>>}

\* _hash_query: md5 of "query.lower().strip()|sorted sources|sorted
\* keywords|language"; md5 is taken to be injective.  The queries of the
\* model are lower case and trimmed; a sorted list of distinct names is the
\* set of them.
HashQuery(query, intent) ==
    <<query, Range(intent.sources), Range(intent.keywords), intent.language>>

(***************************************************************************)
(* The cache table                                                         *)
(***************************************************************************)
\* self.cache_ttl = timedelta(hours=24)
CacheTtlHours == 24

\* The clock advances by TickHours, up to MaxTime.
TickHours == 13
MaxTime == 26

\* The rows a select with .eq('query_hash', h).gte('expires_at', now) matches.
LiveRows(key) ==
    {i \in 1..Len(cache) : cache[i].key = key /\ cache[i].expires >= now}

\* The row cache_results inserts.
NewRow(key, results) ==
    [key |-> key, results |-> results, result_count |-> Len(results),
     expires |-> now + CacheTtlHours, hit_count |-> 0, counted |-> 0]

\* A cached answer that gives the row's results in reverse.
CachedResponseReversed(row) ==
    [kind |-> "ok",
     results |-> [i \in 1..Len(row.results) |-> row.results[Len(row.results) + 1 - i]],
     total_found |-> row.result_count, errors |-> << >>, from_cache |-> TRUE]

\* What get_cached_results returns for a row it found.
CachedResponse(row) ==
    [kind |-> "ok", results |-> row.results, total_found |-> row.result_count,
     errors |-> << >>, from_cache |-> TRUE]

(***************************************************************************)
(* The orchestrators                                                       *)
(***************************************************************************)
Paths == {"search", "search_with_intent", "_search_with_sources"}

\* The limit a path passes to source.search().
TaskLimit(path, intent) ==
    IF path = "search_with_intent" THEN intent.limit
    ELSE IF intent.limit = NoLimit THEN DefaultLimit ELSE intent.limit

\* One pending task per source of the intent that the registry knows.  "at"
\* is the task's place in the order in which the tasks finish.
BuildTasks(intent) ==
    LET known == SelectSeq(intent.sources, LAMBDA n : n \in Registered)
    IN [i \in 1..Len(known) |->
          [source |-> known[i], status |-> "pending", results |-> << >>, at |-> 0]]

\* The number of tasks that have finished.
Finished(tasks) ==
    Cardinality({i \in 1..Len(tasks) : tasks[i].status \in {"returned", "raised"}})

\* The returned lists, concatenated in the order in which the tasks
\* finished.
AllResultsAsCompleted(tasks) ==
    LET n == Len(tasks)
        byAt == [k \in 1..n |-> CHOOSE i \in 1..n : tasks[i].at = k]
        RECURSIVE From(_)
        From(k) ==
            IF k > n THEN << >>
            ELSE (IF tasks[byAt[k]].status = "returned" THEN tasks[byAt[k]].results
                  ELSE << >>) \o From(k + 1)
    IN From(1)

\* "for (source_name, _), result in zip(search_tasks, results_by_source)":
\* the returned lists, concatenated in task order.
RECURSIVE AllResults(_)
AllResults(tasks) ==
    IF tasks = << >> THEN << >>
    ELSE (IF Head(tasks).status = "returned" THEN Head(tasks).results ELSE << >>)
            \o AllResults(Tail(tasks))

\* An entry for every task, whether its call raised or returned.
ErrorsOfEveryTask(tasks) == [i \in 1..Len(tasks) |-> tasks[i].source]

\* One entry per task that ended in an exception, in task order.
Errors(tasks) ==
    LET failed == SelectSeq(tasks, LAMBDA t : t.status = "raised")
    IN [i \in 1..Len(failed) |-> failed[i].source]

\* "if result.url not in seen_urls": the first result of each url is kept.
RECURSIVE DedupByUrl(_, _)
DedupByUrl(results, seen) ==
    IF results = << >> THEN << >>
    ELSE IF Head(results).url \in seen THEN DedupByUrl(Tail(results), seen)
    ELSE << Head(results) >> \o DedupByUrl(Tail(results), seen \cup {Head(results).url})

\* The sort of search() and search_with_intent().  SearchResult has no
\* created_at attribute, so the date key of the time-sensitive branch is
\* datetime.min for every result and the score decides.
DateKey(r) == 0

KeyDateScore(r) == DateKey(r) * 1000 + r.score

SortResults(path, intent, results) ==
    IF path # "_search_with_sources" /\ intent.time_filter # None
    THEN SortDescBy(results, KeyDateScore)
    ELSE SortDescBy(results, KeyScore)

\* "unique_results[:15]", "deduplicated[:intent.get('limit', 15)]" and
\* "all_results[:intent.get('limit', 15)]" (a limit of None cuts nothing).
Cut(path, intent, results) ==
    IF path = "search" THEN Take(results, DefaultLimit)
    ELSE IF intent.limit = NoLimit THEN results
    ELSE Take(results, intent.limit)

\* The deduplication step: _search_with_sources has none.
Dedup(path, results) ==
    IF path = "_search_with_sources" THEN results ELSE DedupByUrl(results, {})

\* The result list a path makes of its finished tasks.
FinalResults(path, intent, tasks) ==
    Cut(path, intent, Dedup(path, SortResults(path, intent, AllResults(tasks))))

\* cache_results(query, intent, results) takes three arguments;
\* _search_with_sources passes four and the call raises TypeError.
CacheWriteRaises(path) == path = "_search_with_sources"

\* The response of a search that went to the sources.
FreshResponse(path, intent, tasks) ==
    IF CacheWriteRaises(path)
    THEN [kind |-> "error", results |-> << >>, total_found |-> 0,
          errors |-> << >>, from_cache |-> FALSE]
    ELSE LET results == FinalResults(path, intent, tasks)
         IN [kind |-> "ok", results |-> results, total_found |-> Len(results),
             errors |-> Errors(tasks), from_cache |-> FALSE]

(***************************************************************************)
(* Requests                                                                *)
(***************************************************************************)
NumRequests == 2

Requests == 1..NumRequests

\* The catalogues the backends hold while the requests of the model run.
MaxWorldHigh == 2
MaxWorldMid == 1

WorldCatalogues(kind) ==
    {c \in Catalogues(kind) :
        /\ \/ c.high = MaxWorldHigh /\ c.mid = MaxWorldMid
           \/ c.high = 0 /\ c.mid = 0
        /\ c.low = 0 /\ c.zero = 0 /\ ~c.dup}

Idle == [pc |-> "idle"]

NoResponse == [kind |-> "none"]

Init ==
    /\ ad = NoCall
    /\ reqs = [r \in Requests |-> Idle]
    /\ cache = << >>
    /\ now = 0

\* The inputs of a request: the entry point, the query and the intent the
\* entry point makes of what it is handed.
RequestInputs ==
    {[path |-> "search", query |-> q, intent |-> ParseSearchIntent(q)] : q \in Queries}
    \cup {[path |-> "search_with_intent", query |-> "rust repo hn",
            intent |-> ClassifiedIntent(c.sources, c.time_sensitive)] :
              c \in Classifications}
    \cup {[path |-> "_search_with_sources", query |-> "rust repo hn",
            intent |-> [ParseSearchIntent("rust repo hn") EXCEPT !.sources = srcs]] :
              srcs \in SuggestedSources}

\* Requests are numbered in their order of arrival.
Arrives(r) ==
    /\ reqs[r].pc = "idle"
    /\ \A p \in Requests : p < r => reqs[p].pc # "idle"

\* The request after a cache lookup that returned None.
Gathering(in) ==
    [pc |-> "gather", path |-> in.path, query |-> in.query, intent |-> in.intent,
     tasks |-> BuildTasks(in.intent), wrote |-> 0, resp |-> NoResponse]

\* get_cached_results returns None because the cache is disabled or the
\* select raised: the request goes to the sources.
StartReadFails(r) ==
    /\ Arrives(r)
    /\ \E in \in RequestInputs : reqs' = [reqs EXCEPT ![r] = Gathering(in)]
    /\ UNCHANGED <<ad, cache, now>>

\* get_cached_results finds no live row: the request goes to the sources.
StartMiss(r) ==
    /\ Arrives(r)
    /\ \E in \in RequestInputs :
         /\ LiveRows(HashQuery(in.query, in.intent)) = {}
         /\ reqs' = [reqs EXCEPT ![r] = Gathering(in)]
    /\ UNCHANGED <<ad, cache, now>>

\* get_cached_results finds a live row ("limit(1)", no order: any of them),
\* counts the hit unless both the RPC and its fallback raise, and the
\* request answers with the row.
StartHit(r) ==
    /\ Arrives(r)
    /\ \E in \in RequestInputs : \E i \in LiveRows(HashQuery(in.query, in.intent)) :
       \E counts \in BOOLEAN :
         /\ reqs' = [reqs EXCEPT ![r] =
                [pc |-> "done", path |-> in.path, query |-> in.query,
                 intent |-> in.intent, tasks |-> << >>, wrote |-> 0,
                 resp |-> CachedResponse(cache[i])]]
         /\ cache' = [cache EXCEPT ![i].counted = @ + 1,
                                   ![i].hit_count = IF counts THEN @ + 1 ELSE @]
    /\ UNCHANGED <<ad, now>>

\* A source's search() returns: its backend holds some catalogue and
\* answers the adapter's queries, or fails them.
TaskReturn(r, i) ==
    /\ reqs[r].pc = "gather"
    /\ i \in 1..Len(reqs[r].tasks)
    /\ reqs[r].tasks[i].status = "pending"
    /\ LET kind == reqs[r].tasks[i].source
           limit == TaskLimit(reqs[r].path, reqs[r].intent)
       IN \E cat \in WorldCatalogues(kind) : \E ok \in BOOLEAN :
            reqs' = [reqs EXCEPT ![r].tasks[i] =
                [source |-> kind, status |-> "returned",
                 results |-> AdapterSearch(kind, cat, limit, ok, ok),
                 at |-> Finished(reqs[r].tasks) + 1]]
    /\ UNCHANGED <<ad, cache, now>>

\* A source's search() raises.
TaskRaise(r, i) ==
    /\ reqs[r].pc = "gather"
    /\ i \in 1..Len(reqs[r].tasks)
    /\ reqs[r].tasks[i].status = "pending"
    /\ reqs' = [reqs EXCEPT ![r].tasks[i].status = "raised",
                             ![r].tasks[i].at = Finished(reqs[r].tasks) + 1]
    /\ UNCHANGED <<ad, cache, now>>

TasksFinished(r) ==
    \A i \in 1..Len(reqs[r].tasks) : reqs[r].tasks[i].status \in {"returned", "raised"}

\* asyncio.gather returns once every task has finished: collect, sort,
\* deduplicate, cut, write the cache row and answer.
GatherDone(r) ==
    /\ reqs[r].pc = "gather"
    /\ TasksFinished(r)
    /\ LET q == reqs[r]
           resp == FreshResponse(q.path, q.intent, q.tasks)
       IN \E ok \in BOOLEAN :
            LET stored == ok /\ ~CacheWriteRaises(q.path)
            IN /\ cache' = IF stored
                           THEN Append(cache, NewRow(HashQuery(q.query, q.intent), resp.results))
                           ELSE cache
               /\ reqs' = [reqs EXCEPT ![r] =
                     [@ EXCEPT !.pc = "done", !.resp = resp,
                               !.wrote = IF stored THEN Len(cache) + 1 ELSE 0]]
    /\ UNCHANGED <<ad, now>>

Tick ==
    /\ now + TickHours <= MaxTime
    /\ now' = now + TickHours
    /\ UNCHANGED <<ad, reqs, cache>>

Next ==
    \/ \E r \in Requests : StartReadFails(r)
    \/ \E r \in Requests : StartMiss(r)
    \/ \E r \in Requests : StartHit(r)
    \/ \E r \in Requests : \E i \in 1..2 : TaskReturn(r, i)
    \/ \E r \in Requests : \E i \in 1..2 : TaskRaise(r, i)
    \/ \E r \in Requests : GatherDone(r)
    \/ Tick

Spec == Init /\ [][Next]_vars

(***************************************************************************)
(* A source call that never returns                                        *)
(***************************************************************************)
NumHangRequests == 1

HangRequests == 1..NumHangRequests

\* A source's search() never returns: neither path wraps the task in
\* asyncio.wait_for and asyncio.gather is given no timeout.
TaskHang(r, i) ==
    /\ reqs[r].pc = "gather"
    /\ i \in 1..Len(reqs[r].tasks)
    /\ reqs[r].tasks[i].status = "pending"
    /\ reqs' = [reqs EXCEPT ![r].tasks[i].status = "hung"]
    /\ UNCHANGED <<ad, cache, now>>

HangNext ==
    \/ \E r \in HangRequests : StartReadFails(r)
    \/ \E r \in HangRequests : StartMiss(r)
    \/ \E r \in HangRequests : \E i \in 1..2 : TaskReturn(r, i)
    \/ \E r \in HangRequests : \E i \in 1..2 : TaskRaise(r, i)
    \/ \E r \in HangRequests : \E i \in 1..2 : TaskHang(r, i)
    \/ \E r \in HangRequests : GatherDone(r)

\* The event loop runs every coroutine that can run: a request that can
\* start its gather or end it does, and a pending source call ends in one
\* of its three ways.
HangSpec ==
    /\ Init
    /\ [][HangNext]_vars
    /\ \A r \in HangRequests :
         /\ WF_vars(GatherDone(r))
         /\ \A i \in 1..2 :
              WF_vars(TaskReturn(r, i) \/ TaskRaise(r, i) \/ TaskHang(r, i))

(***************************************************************************)
(* The cache service on a shared table                                     *)
(***************************************************************************)
\* Service processes sharing the search_cache table; each runs one
\* get_cached_results at a time, and its database round trips interleave
\* with those of the others.
NumCallers == 2

Callers == 1..NumCallers

MaxRows == 2
MaxHits == 2

CacheKeys == {HashQuery(q, ParseSearchIntent(q)) : q \in Queries}

\* The result lists callers store.
CacheLists ==
    {<<MkResult(GitHub, "high", 1, FALSE)>>,
     <<MkResult(GitHub, "high", 2, FALSE), MkResult(GitHub, "high", 1, FALSE)>>}

NoneFound == [found |-> FALSE]

Found(row) == [found |-> TRUE, results |-> row.results]

CallerIdle == [pc |-> "idle", key |-> << >>, ok |-> FALSE, ret |-> NoneFound, row |-> 0, read |-> 0]

CacheInit ==
    /\ ad = NoCall
    /\ reqs = [c \in Callers |-> CallerIdle]
    /\ cache = << >>
    /\ now = 0

\* cache_results: one insert; an exception (or a disabled cache) stores
\* nothing and returns False.
CachePut(c) ==
    /\ reqs[c].pc = "idle"
    /\ Len(cache) < MaxRows
    /\ \E key \in CacheKeys : \E results \in CacheLists : \E ok \in BOOLEAN :
         cache' = IF ok THEN Append(cache, NewRow(key, results)) ELSE cache
    /\ UNCHANGED <<ad, reqs, now>>

\* get_cached_results up to the increment_cache_hits RPC: the select of a
\* live row of the key, then the RPC, which counts the hit or raises.
CacheGet(c) ==
    /\ reqs[c].pc = "idle"
    /\ \E key \in CacheKeys : \E ok \in BOOLEAN :
         IF ~ok \/ LiveRows(key) = {}
         THEN /\ reqs' = [reqs EXCEPT ![c] = [CallerIdle EXCEPT !.key = key, !.ok = ok]]
              /\ cache' = cache
         ELSE \E i \in LiveRows(key) : \E rpc \in BOOLEAN :
                /\ cache[i].counted < MaxHits
                /\ reqs' = [reqs EXCEPT ![c] =
                      [pc |-> IF rpc THEN "idle" ELSE "fallback_read", key |-> key,
                       ok |-> TRUE, ret |-> Found(cache[i]), row |-> i, read |-> 0]]
                /\ cache' = [cache EXCEPT ![i].counted = @ + 1,
                                          ![i].hit_count = IF rpc THEN @ + 1 ELSE @]
    /\ UNCHANGED <<ad, now>>

\* The fallback's select of hit_count; an exception ends the counting.
FallbackRead(c) ==
    /\ reqs[c].pc = "fallback_read"
    /\ \E ok \in BOOLEAN :
         reqs' = [reqs EXCEPT ![c] =
            IF ok THEN [@ EXCEPT !.pc = "fallback_write", !.read = cache[reqs[c].row].hit_count]
            ELSE [@ EXCEPT !.pc = "idle"]]
    /\ UNCHANGED <<ad, cache, now>>

\* The fallback's update to the count it read plus one; an exception is
\* swallowed.
FallbackWrite(c) ==
    /\ reqs[c].pc = "fallback_write"
    /\ \E ok \in BOOLEAN :
         cache' = IF ok
                  THEN [cache EXCEPT ![reqs[c].row].hit_count = reqs[c].read + 1]
                  ELSE cache
    /\ reqs' = [reqs EXCEPT ![c] = [@ EXCEPT !.pc = "idle", !.read = 0]]
    /\ UNCHANGED <<ad, now>>

CacheNext ==
    \/ \E c \in Callers : CachePut(c)
    \/ \E c \in Callers : CacheGet(c)
    \/ \E c \in Callers : FallbackRead(c)
    \/ \E c \in Callers : FallbackWrite(c)
    \/ Tick

CacheSpec == CacheInit /\ [][CacheNext]_vars

(***************************************************************************)
(* IntentClassifier                                                        *)
(***************************************************************************)
\* A query is its sequence of words, lower case, single spaces between
\* them; << >> is the empty string.
Words == {"on", "github", "python", "repos", "subreddit", "bitcoin", "tutorial"}

MaxWords == 4

ClassifierQueries == UNION {[1..n -> Words] : n \in 0..MaxWords}

HasWord(q, w) == \E i \in 1..Len(q) : q[i] = w

HasBigram(q, w1, w2) == \E i \in 1..(Len(q) - 1) : q[i] = w1 /\ q[i + 1] = w2

\* The first occurrences of the words of s, in order.
RECURSIVE Unique(_, _)
Unique(s, seen) ==
    IF s = << >> THEN << >>
    ELSE IF Head(s) \in seen THEN Unique(Tail(s), seen)
    ELSE << Head(s) >> \o Unique(Tail(s), seen \cup {Head(s)})

\* _detect_sources: the sources one of whose patterns matches, in the order
\* of source_patterns.  Of the words of the model, "(on|from|in|at) github"
\* and "subreddit" match.
DetectSources(q) ==
    (IF HasBigram(q, "on", "github") THEN << GitHub >> ELSE << >>)
        \o (IF HasWord(q, "subreddit") THEN << "reddit" >> ELSE << >>)

\* The number of an intent's patterns that match: "tutorial" matches one
\* TUTORIAL pattern, "repos" one CODE_SEARCH pattern and "github repos" a
\* second one.
IntentMatches(q, intent) ==
    CASE intent = "tutorial" -> IF HasWord(q, "tutorial") THEN 1 ELSE 0
      [] intent = "code_search" ->
            (IF HasWord(q, "repos") THEN 1 ELSE 0)
              + (IF HasBigram(q, "github", "repos") THEN 1 ELSE 0)
      [] OTHER -> 0

\* priority_order of _detect_intent.
PriorityOrder ==
    <<"price_check", "gaming", "tutorial", "code_search", "discussion", "news",
      "documentation", "general">>

\* The first intent of priority_order with a matching pattern, whatever
\* the counts.
DetectIntentFirstMatch(q) ==
    LET scored == {i \in 1..Len(PriorityOrder) : IntentMatches(q, PriorityOrder[i]) > 0}
    IN IF scored = {} THEN "general"
       ELSE PriorityOrder[CHOOSE i \in scored : \A j \in scored : i <= j]

\* _detect_intent: the intent with the most matching patterns, the earlier
\* one in priority_order on a tie; general when nothing matches.
DetectIntent(q) ==
    LET scored == {i \in 1..Len(PriorityOrder) : IntentMatches(q, PriorityOrder[i]) > 0}
        top == {i \in scored : \A j \in scored :
                   IntentMatches(q, PriorityOrder[j]) <= IntentMatches(q, PriorityOrder[i])}
    IN IF scored = {} THEN "general"
       ELSE PriorityOrder[CHOOSE i \in top : \A j \in top : i <= j]

\* _extract_entities: the categories with a term in the query; "python" is
\* a language and "bitcoin" a cryptocurrency.
ExtractEntities(q) ==
    [languages |-> IF HasWord(q, "python") THEN << "python" >> ELSE << >>,
     cryptocurrencies |-> IF HasWord(q, "bitcoin") THEN << "bitcoin" >> ELSE << >>,
     stocks |-> << >>]

\* _extract_keywords: the words that are no stop words ("on" is one) and
\* longer than 2, without repetitions.
ExtractKeywords(q) == Unique(SelectSeq(q, LAMBDA w : w # "on"), {})

\* The confidence without the final cap.
CalculateConfidenceUncapped(detected_sources, detected_intent, entities, keywords, query) ==
    LET entity_count == Len(entities.languages) + Len(entities.cryptocurrencies)
                           + Len(entities.stocks)
        word_count == Len(query)
    IN (IF detected_sources # << >> THEN 30 ELSE 0)
        + (IF detected_intent = "general" THEN 0
           ELSE IF detected_intent \in {"price_check", "tutorial"} THEN 25 ELSE 20)
        + (IF entity_count > 0 THEN Min(entity_count * 10, 30) ELSE 0)
        + (IF Len(keywords) >= 1 THEN 10 ELSE 0)
        + (IF Len(keywords) >= 3 THEN 5 ELSE 0)
        + (IF 3 <= word_count /\ word_count <= 15 THEN 10
           ELSE IF word_count >= 2 THEN 5 ELSE 0)

\* _calculate_confidence, in hundredths.
CalculateConfidence(detected_sources, detected_intent, entities, keywords, query) ==
    Min(CalculateConfidenceUncapped(detected_sources, detected_intent, entities,
                                    keywords, query), 98)

\* "sources.insert(0, explicit_source)" for each detected source not yet
\* in the list.
RECURSIVE InsertExplicit(_, _)
InsertExplicit(sources, detected) ==
    IF detected = << >> THEN sources
    ELSE InsertExplicit(IF Head(detected) \in Range(sources) THEN sources
                        ELSE << Head(detected) >> \o sources,
                        Tail(detected))

\* The sources the intent routes to, before explicit and entity sources.
RoutedSources(detected_intent, confidence) ==
    CASE detected_intent \in {"tutorial", "code_search", "documentation"} -> <<GitHub, DevTo>>
      [] detected_intent = "discussion" -> <<"reddit", HackerNews>>
      [] detected_intent = "news" -> <<HackerNews, "reddit", DevTo>>
      [] detected_intent = "price_check" -> <<"crypto", "stocks">>
      [] detected_intent = "gaming" -> <<"ign", "pcgamer">>
      [] OTHER -> IF confidence < 30
                  THEN <<GitHub, "reddit", HackerNews, DevTo, "stocks", "crypto", "ign", "pcgamer">>
                  ELSE <<GitHub, DevTo, HackerNews>>

\* The routing with the fallback to every source also at 0.30.
DetermineSourcesFallbackAtThreshold(detected_sources, detected_intent, entities, confidence) ==
    Unique(InsertExplicit(RoutedSources(detected_intent, confidence - 1), detected_sources), {})

\* _determine_sources
DetermineSources(detected_sources, detected_intent, entities, confidence) ==
    LET routed == InsertExplicit(RoutedSources(detected_intent, confidence), detected_sources)
        crypto == IF entities.cryptocurrencies # << >> /\ "crypto" \notin Range(routed)
                  THEN << "crypto" >> \o routed ELSE routed
        stocks == IF entities.stocks # << >> /\ "stocks" \notin Range(crypto)
                  THEN << "stocks" >> \o crypto ELSE crypto
    IN Unique(stocks, {})

\* classify
Classify(q) ==
    LET detected_sources == DetectSources(q)
        detected_intent == DetectIntent(q)
        entities == ExtractEntities(q)
        keywords == ExtractKeywords(q)
        confidence == CalculateConfidence(detected_sources, detected_intent, entities,
                                          keywords, q)
    IN [intent_type |-> detected_intent,
        confidence |-> confidence,
        sources |-> DetermineSources(detected_sources, detected_intent, entities, confidence),
        entities |-> entities,
        keywords |-> keywords]

ClassifierInit ==
    /\ ad \in {[pc |-> "query", query |-> q] : q \in ClassifierQueries}
    /\ reqs = << >>
    /\ cache = << >>
    /\ now = 0

ClassifyQuery ==
    /\ ad.pc = "query"
    /\ ad' = [pc |-> "classified", query |-> ad.query, result |-> Classify(ad.query)]
    /\ UNCHANGED <<reqs, cache, now>>

ClassifierNext == ClassifyQuery

ClassifierSpec == ClassifierInit /\ [][ClassifierNext]_vars

(***************************************************************************)
(* RelevanceScorer                                                         *)
(***************************************************************************)
\* Texts are sequences of tokens: words, and the double quote.  No word of
\* the model is part of another, so that "phrase in title" is an occurrence
\* of the phrase's words in a row.  "how" is one of STOP_WORDS.
ScorerWords == {"rust", "web", "how"}

Quote == "\""

\* A query is a sequence of items: bare words and quoted phrases.
QueryItems ==
    {[quoted |-> FALSE, words |-> <<w>>] : w \in ScorerWords}
      \cup {[quoted |-> TRUE, words |-> p] : p \in {<<"rust", "web">>, <<"web">>}}

MaxItems == 2
MaxTitle == 3

ScorerQueries == UNION {[1..n -> QueryItems] : n \in 0..MaxItems}

Titles == UNION {[1..n -> ScorerWords] : n \in 0..MaxTitle}

Bodies == {<< >>, <<"rust">>}

TagLists == {<< >>, <<"web">>}

\* metadata: none, and a repository with 5000 stars, updated in 2024, with
\* a description.
Metadatas == {[stars |-> 0, year |-> 0, has_description |-> FALSE],
              [stars |-> 5000, year |-> 2024, has_description |-> TRUE]}

\* The semantic scores the embedding comparison may give.
SemanticScores == {0, 100}

\* The query as it was typed.
RECURSIVE QueryText(_)
QueryText(query) ==
    IF query = << >> THEN << >>
    ELSE (IF Head(query).quoted THEN <<Quote>> \o Head(query).words \o <<Quote>>
          ELSE Head(query).words) \o QueryText(Tail(query))

\* "phrase in text"
OccursAt(text, phrase, i) ==
    /\ i + Len(phrase) - 1 <= Len(text)
    /\ \A k \in 1..Len(phrase) : text[i + k - 1] = phrase[k]

Contains(text, phrase) == \E i \in 1..Len(text) : OccursAt(text, phrase, i)

StartsWith(text, phrase) == Len(text) >= 1 /\ OccursAt(text, phrase, 1)

EndsWith(text, phrase) ==
    Len(text) >= Len(phrase) /\ OccursAt(text, phrase, Len(text) - Len(phrase) + 1)

\* len(re.findall(r'\bterm\b', text))
Matches(text, term) == Cardinality({i \in 1..Len(text) : text[i] = term})

\* _parse_query: the quoted phrases, and the other words that are no stop
\* words.
ParsePhrases(query) ==
    LET quoted == SelectSeq(query, LAMBDA it : it.quoted)
    IN [i \in 1..Len(quoted) |-> quoted[i].words]

ParseTerms(query) ==
    LET bare == SelectSeq(query, LAMBDA it : ~it.quoted /\ it.words[1] # "how")
    IN [i \in 1..Len(bare) |-> bare[i].words[1]]

\* One phrase's score in _score_phrases.
PhraseScore(phrase, title, body, tags) ==
    IF Contains(title, phrase)
    THEN (IF StartsWith(title, phrase) THEN 60
          ELSE IF EndsWith(title, phrase) THEN 50 ELSE 45)
    ELSE IF Contains(body, phrase) THEN 30
    ELSE IF \E i \in 1..Len(tags) : <<tags[i]>> = phrase THEN 25
    ELSE 0

RECURSIVE ScorePhrases(_, _, _, _)
ScorePhrases(phrases, title, body, tags) ==
    IF phrases = << >> THEN 0
    ELSE PhraseScore(Head(phrases), title, body, tags)
            + ScorePhrases(Tail(phrases), title, body, tags)

TermInTags(term, tags) == \E i \in 1..Len(tags) : tags[i] = term

TermMatched(term, title, body, tags) ==
    Matches(title, term) > 0 \/ Matches(body, term) > 0 \/ TermInTags(term, tags)

\* One term's score in _score_terms.
TermScore(term, title, body, tags) ==
    (IF Matches(title, term) > 0
     THEN 35 + (Matches(title, term) - 1) * 5 + (IF title[1] = term THEN 10 ELSE 0)
     ELSE IF Matches(body, term) > 0 THEN 15 + Min(Matches(body, term) - 1, 5)
     ELSE 0)
      + (IF TermInTags(term, tags) THEN 20 ELSE 0)

RECURSIVE SumTermScores(_, _, _, _)
SumTermScores(terms, title, body, tags) ==
    IF terms = << >> THEN 0
    ELSE TermScore(Head(terms), title, body, tags)
            + SumTermScores(Tail(terms), title, body, tags)

\* _score_terms
ScoreTerms(terms, title, body, tags) ==
    LET matched_terms == Len(SelectSeq(terms, LAMBDA t : TermMatched(t, title, body, tags)))
    IN SumTermScores(terms, title, body, tags)
         + (IF matched_terms > 1 THEN matched_terms * 10 ELSE 0)

\* _score_metadata
ScoreMetadata(metadata) ==
    (IF metadata.stars > 1000 THEN 5
     ELSE IF metadata.stars > 100 THEN 3
     ELSE IF metadata.stars > 10 THEN 1 ELSE 0)
      + (IF metadata.year >= 2024 THEN 5 ELSE IF metadata.year >= 2023 THEN 3 ELSE 0)
      + (IF metadata.has_description THEN 3 ELSE 0)

\* keyword_score of calculate_relevance, in hundredths.
KeywordScore(title, body, tags, query, metadata) ==
    LET phrases == ParsePhrases(query)
        terms == ParseTerms(query)
        matched == ScorePhrases(phrases, title, body, tags)
                      + ScoreTerms(terms, title, body, tags)
    IN (IF Len(terms) + Len(phrases) > 1 THEN matched * 110 ELSE matched * 100)
          + ScoreMetadata(metadata) * 100

\* The score before "min(score, 100.0)", in hundredths.
RelevanceUncapped(title, body, tags, query, metadata, semantic) ==
    LET phrases == ParsePhrases(query)
        terms == ParseTerms(query)
        keyword_score == KeywordScore(title, body, tags, query, metadata)
    IN IF phrases = << >> /\ terms = << >> THEN 5000
       ELSE IF semantic.enabled /\ keyword_score > 0
            THEN (keyword_score * 7 + semantic.score * 100 * 3) \div 10
            ELSE keyword_score

\* calculate_relevance, in hundredths; semantic is use_embeddings and what
\* _calculate_semantic_similarity returns for this title.
CalculateRelevance(title, body, tags, query, metadata, semantic) ==
    Min(RelevanceUncapped(title, body, tags, query, metadata, semantic), 10000)

ScorerInit ==
    /\ ad \in {[pc |-> "candidate", title |-> t, body |-> b, tags |-> g, query |-> q,
                metadata |-> m, use_embeddings |-> e] :
                  t \in Titles, b \in Bodies, g \in TagLists, q \in ScorerQueries,
                  m \in Metadatas, e \in BOOLEAN}
    /\ reqs = << >>
    /\ cache = << >>
    /\ now = 0

\* _calculate_semantic_similarity: the similarity when both embeddings
\* were obtained, 0.0 when one of them is None.
CalculateSemanticSimilarity(available, similarity) == IF available THEN similarity ELSE 0

\* The candidate is scored, and so is the candidate with the query
\* appended to its title.  "available" says that the embeddings of the
\* query and of the content were both obtained in the first call.
ScoreCandidate ==
    /\ ad.pc = "candidate"
    /\ \E s1, s2 \in SemanticScores : \E available \in BOOLEAN :
         /\ available => /\ ad.use_embeddings
                         /\ ad.query # << >>
                         /\ ad.title # << >> \/ ad.body # << >>
         /\ ~available => s1 = 0
         /\ ad' = [ad EXCEPT !.pc = "scored"] @@
               [available |-> available,
                semantic |-> CalculateSemanticSimilarity(available, s1),
                score |-> CalculateRelevance(ad.title, ad.body, ad.tags, ad.query, ad.metadata,
                             [enabled |-> ad.use_embeddings,
                              score |-> CalculateSemanticSimilarity(available, s1)]),
                appended |-> CalculateRelevance(ad.title \o QueryText(ad.query), ad.body,
                             ad.tags, ad.query, ad.metadata,
                             [enabled |-> ad.use_embeddings, score |-> s2])]
    /\ UNCHANGED <<reqs, cache, now>>

ScorerNext == ScoreCandidate

ScorerSpec == ScorerInit /\ [][ScorerNext]_vars

(***************************************************************************)
(* The search endpoint and its rate limit                                  *)
(***************************************************************************)
\* daily_limit_per_user, and the window of check_user_limit in hours.
DailyLimit == 50
WindowHours == 24

NumRateRequests == 2

RateRequests == 1..NumRateRequests

\* The instants of the model: a row's created_at and the clock.
Times == {t \in 0..MaxTime : t % TickHours = 0}

RECURSIVE SumOver(_, _)
SumOver(f, S) ==
    IF S = {} THEN 0
    ELSE LET x == CHOOSE y \in S : TRUE IN f[x] + SumOver(f, S \ {x})

\* The user's rows of ai_usage with created_at >= since; the table is held
\* as the number of the user's rows per created_at.
RowsSince(table, since) == SumOver(table, {t \in Times : t >= since})

\* check_user_limit when the select succeeds.
CheckUserLimit(table, t) ==
    LET count == RowsSince(table, t - WindowHours)
        remaining == IF DailyLimit - count > 0 THEN DailyLimit - count ELSE 0
    IN [allowed |-> remaining > 0, remaining |-> remaining, count |-> count]

\* check_user_limit when the select raises: the request is allowed.
CheckUserLimitError == [allowed |-> TRUE, remaining |-> DailyLimit, count |-> 0]

\* The user has run and logged between DailyLimit - MaxHeadroom and
\* DailyLimit queries, one after the other, when the requests of the model
\* arrive.
MaxHeadroom == 2

\* "ad" counts the user's queries handed to handle_query per instant, and
\* "cache" is the user's part of ai_usage.
RateInit ==
    /\ \E k \in (DailyLimit - MaxHeadroom)..DailyLimit :
         /\ ad = [t \in Times |-> IF t = 0 THEN k ELSE 0]
         /\ cache = [t \in Times |-> IF t = 0 THEN k ELSE 0]
    /\ reqs = [r \in RateRequests |-> [pc |-> "idle", counted |-> 0]]
    /\ now = 0

\* search_content up to its first await: the user's limit is checked, then
\* the global limit (other users' rows decide it), and handle_query is
\* called.  "counted" is the number of rows the window holds on arrival.
SearchContentStart(r) ==
    /\ reqs[r].pc = "idle"
    /\ \E select_ok, global_allows \in BOOLEAN :
         LET user_limit == IF select_ok THEN CheckUserLimit(cache, now)
                           ELSE CheckUserLimitError
             counted == RowsSince(cache, now - WindowHours)
         IN IF ~user_limit.allowed
            THEN /\ reqs' = [reqs EXCEPT ![r] = [pc |-> "429", counted |-> counted]]
                 /\ ad' = ad
            ELSE IF ~global_allows
            THEN /\ reqs' = [reqs EXCEPT ![r] = [pc |-> "503", counted |-> counted]]
                 /\ ad' = ad
            ELSE /\ reqs' = [reqs EXCEPT ![r] = [pc |-> "running", counted |-> counted]]
                 /\ ad' = [ad EXCEPT ![now] = @ + 1]
    /\ UNCHANGED <<cache, now>>

\* handle_query returns and log_usage inserts a row, unless the insert
\* raises; or handle_query raises and nothing is logged.
SearchContentFinish(r) ==
    /\ reqs[r].pc = "running"
    /\ \E returns, inserted \in BOOLEAN :
         IF returns
         THEN /\ reqs' = [reqs EXCEPT ![r].pc = "200"]
              /\ cache' = IF inserted THEN [cache EXCEPT ![now] = @ + 1] ELSE cache
         ELSE /\ reqs' = [reqs EXCEPT ![r].pc = "500"]
              /\ cache' = cache
    /\ UNCHANGED <<ad, now>>

RateNext ==
    \/ \E r \in RateRequests : SearchContentStart(r)
    \/ \E r \in RateRequests : SearchContentFinish(r)
    \/ Tick

RateSpec == RateInit /\ [][RateNext]_vars

(***************************************************************************)
(* The cache key                                                           *)
(***************************************************************************)
\* Query texts are sequences of characters here.
KeyChars == {"a", "A", " "}

MaxQueryLen == 2

KeyQueries == UNION {[1..n -> KeyChars] : n \in 0..MaxQueryLen}

\* str.lower()
Lower(text) == [i \in 1..Len(text) |-> IF text[i] = "A" THEN "a" ELSE text[i]]

\* str.strip()
RECURSIVE StripLeft(_)
StripLeft(text) ==
    IF text # << >> /\ Head(text) = " " THEN StripLeft(Tail(text)) ELSE text

RECURSIVE StripRight(_)
StripRight(text) ==
    IF text # << >> /\ text[Len(text)] = " "
    THEN StripRight(SubSeq(text, 1, Len(text) - 1)) ELSE text

Strip(text) == StripRight(StripLeft(text))

\* The order of the strings of the model under sorted().
Alphabetical == <<"api", GitHub, HackerNews, "web">>

RECURSIVE InsertSorted(_, _)
InsertSorted(name, s) ==
    IF s = << >> THEN << name >>
    ELSE IF Position(Alphabetical, name) <= Position(Alphabetical, Head(s))
         THEN << name >> \o s
         ELSE << Head(s) >> \o InsertSorted(name, Tail(s))

\* sorted(names)
RECURSIVE Sorted(_)
Sorted(names) ==
    IF names = << >> THEN << >> ELSE InsertSorted(Head(names), Sorted(Tail(names)))

\* ','.join(names), as a sequence of names and commas.
RECURSIVE Join(_)
Join(names) ==
    IF names = << >> THEN << >>
    ELSE IF Len(names) = 1 THEN names
    ELSE << Head(names), "," >> \o Join(Tail(names))

\* The key with the sources as they come, unsorted.
HashQueryUnsorted(query, intent) ==
    Strip(Lower(query)) \o << "|" >> \o Join(intent.sources) \o << "|" >>
        \o Join(Sorted(intent.keywords)) \o << "|", intent.language >>

\* _hash_query on a query given character by character: the string
\* "query.lower().strip()|sorted sources|sorted keywords|language" whose
\* md5 is the key; md5 is taken to be injective.
CacheKey(query, intent) ==
    Strip(Lower(query)) \o << "|" >> \o Join(Sorted(intent.sources)) \o << "|" >>
        \o Join(Sorted(intent.keywords)) \o << "|", intent.language >>

KeySources == {<<GitHub>>, <<HackerNews>>, <<GitHub, HackerNews>>, <<HackerNews, GitHub>>}

KeyKeywords == {<< >>, <<"api">>, <<"api", "web">>, <<"web", "api">>}

\* The intents of the first request name no time filter and no limit;
\* those of the second request may.
KeyIntents(filters, limits) ==
    {[sources |-> s, keywords |-> k, language |-> l, time_filter |-> f, limit |-> m] :
        s \in KeySources, k \in KeyKeywords, l \in {None, "Rust"}, f \in filters, m \in limits}

KeyInit ==
    /\ ad \in {[pc |-> "first", first |-> [query |-> q1, intent |-> i1]] :
                  q1 \in KeyQueries, i1 \in KeyIntents({None}, {NoLimit})}
    /\ reqs = << >>
    /\ cache = << >>
    /\ now = 0

\* A second request arrives and the keys of the two are computed.
HashQueries ==
    /\ ad.pc = "first"
    /\ \E q2 \in KeyQueries :
       \E i2 \in KeyIntents({None}, {NoLimit}) \cup KeyIntents({"week"}, {SmallLimit}) :
         ad' = [pc |-> "hashed", first |-> ad.first,
                second |-> [query |-> q2, intent |-> i2],
                key1 |-> CacheKey(ad.first.query, ad.first.intent),
                key2 |-> CacheKey(q2, i2)]
    /\ UNCHANGED <<reqs, cache, now>>

KeyNext == HashQueries

KeySpec == KeyInit /\ [][KeyNext]_vars

(***************************************************************************)
(* AgentRouter                                                             *)
(***************************************************************************)
\* The agents in the order _determine_best_agent checks them.
AgentTypes == <<"conversation", "code", "search">>

\* The confidences can_handle may report; 0 stands for an agent that
\* cannot handle the query or whose check raises.
MaxConfidence == 2

CanHandleOutcomes == [1..Len(AgentTypes) -> 0..MaxConfidence]

\* agent_scores: the agents that can handle the query, sorted by
\* confidence, highest first, by a stable sort.
AgentScores(checks) ==
    LET able == SelectSeq([i \in 1..Len(AgentTypes) |-> i], LAMBDA i : checks[i] > 0)
        pairs == SortPairsDesc([k \in 1..Len(able) |-> <<checks[able[k]], AgentTypes[able[k]]>>])
    IN [k \in 1..Len(pairs) |-> pairs[k][2]]

\* _determine_best_agent: the primary agent and the fallbacks.
DetermineBestAgent(checks) ==
    LET agent_scores == AgentScores(checks)
    IN IF agent_scores # << >>
       THEN [primary_agent |-> Head(agent_scores), fallback_agents |-> Tail(agent_scores)]
       ELSE [primary_agent |-> "search", fallback_agents |-> <<"conversation">>]

\* The fallbacks before the primary agent.
CandidatesFallbacksFirst(primary_agent, fallback_agents) ==
    fallback_agents \o << primary_agent >>

\* The agents _execute_with_fallback tries, in its order.
Candidates(primary_agent, fallback_agents) == << primary_agent >> \o fallback_agents

AllAgentsFailed(primary_agent) ==
    [success |-> FALSE, agent_type |-> primary_agent, error |-> "All agents failed"]

RouterInit ==
    /\ ad \in {[pc |-> "route", checks |-> c] : c \in CanHandleOutcomes}
    /\ reqs = << >>
    /\ cache = << >>
    /\ now = 0

\* route() up to the first await of _execute_with_fallback.
Route ==
    /\ ad.pc = "route"
    /\ LET decision == DetermineBestAgent(ad.checks)
       IN ad' = [pc |-> "execute", checks |-> ad.checks,
                 primary_agent |-> decision.primary_agent,
                 fallback_agents |-> decision.fallback_agents,
                 invoked |-> << >>, resp |-> NoResponse]
    /\ UNCHANGED <<reqs, cache, now>>

\* The agent whose turn it is.
NextAgent ==
    Candidates(ad.primary_agent, ad.fallback_agents)[Len(ad.invoked) + 1]

\* The agent's respond() returns success: its response is returned.
RespondSuccess ==
    /\ ad.pc = "execute"
    /\ ad' = [ad EXCEPT !.pc = "done",
                        !.invoked = Append(@, [agent |-> NextAgent, outcome |-> "success"]),
                        !.resp = [success |-> TRUE, agent_type |-> NextAgent, error |-> None]]
    /\ UNCHANGED <<reqs, cache, now>>

\* The agent's respond() returns failure, or raises (as does _get_agent when
\* the agent cannot be built): the next agent is tried, and after the last
\* one the error response is returned.
RespondFails ==
    /\ ad.pc = "execute"
    /\ \E outcome \in {"failure", "raises"} :
         LET invoked == Append(ad.invoked, [agent |-> NextAgent, outcome |-> outcome])
             last == Len(invoked) = Len(Candidates(ad.primary_agent, ad.fallback_agents))
         IN ad' = [ad EXCEPT !.invoked = invoked,
                             !.pc = IF last THEN "done" ELSE "execute",
                             !.resp = IF last THEN AllAgentsFailed(ad.primary_agent)
                                      ELSE NoResponse]
    /\ UNCHANGED <<reqs, cache, now>>

RouterNext == Route \/ RespondSuccess \/ RespondFails

RouterSpec == RouterInit /\ [][RouterNext]_vars

(***************************************************************************)
(* The /api/scan stream (src/api/main.py, scan_stream.event_generator).    *)
(* One relay task per requested source copies the events of that source's  *)
(* generator into one unbounded asyncio.Queue and ends with a None         *)
(* sentinel; the response generator drains the queue to the client and     *)
(* closes the stream with scan_complete.  The relays live in reqs, the     *)
(* queue in cache, the response generator's locals and the stream sent so  *)
(* far in ad.  Between two awaits that can suspend, a coroutine runs       *)
(* alone: put() on an unbounded queue never suspends, so a relay's step    *)
(* runs from one event of its generator to the next.                       *)
(***************************************************************************)
NumSpiders == 2

\* the most events one source generator yields before it terminates
MaxEvents == 2

spiders == 1..NumSpiders

\* what run_spider_async yields: item events carrying a data dict, and
\* connecting / scanning / warning / error events
GeneratorEvents == {"item", "status"}

\* the loop condition of the response generator
StreamContinuesUntilFirstDone(completed, queue) ==
    completed < 1 \/ queue # <<>>

StreamContinues(completed, queue) ==
    completed < NumSpiders \/ queue # <<>>

ScanInit ==
    /\ reqs = [r \in spiders |-> [pc |-> "running", first_item |-> TRUE, yielded |-> 0]]
    /\ cache = <<>>
    /\ ad = [pc |-> "streaming", total_items_counter |-> 0, completed |-> 0,
             emitted |-> <<>>, total_items |-> 0, enqueued |-> <<>>]
    /\ now = 0

\* relay: the generator yields one more event
RelayEvent(r) ==
    /\ reqs[r].pc = "running"
    /\ reqs[r].yielded < MaxEvents
    /\ \E event \in GeneratorEvents :
         LET isItem == event = "item"
             puts == IF isItem /\ reqs[r].first_item
                       THEN <<"source_connected", event>>
                       ELSE <<event>>
         IN /\ reqs' = [reqs EXCEPT ![r].yielded = @ + 1,
                                    ![r].first_item = @ /\ ~isItem]
            /\ cache' = cache \o puts
            /\ ad' = [ad EXCEPT !.total_items_counter = IF isItem THEN @ + 1 ELSE @,
                                !.enqueued = @ \o puts]
    /\ UNCHANGED now

\* relay: the generator is exhausted; finally puts the sentinel
RelayEnds(r) ==
    /\ reqs[r].pc = "running"
    /\ reqs' = [reqs EXCEPT ![r].pc = "finished"]
    /\ cache' = Append(cache, None)
    /\ UNCHANGED <<ad, now>>

\* relay: the generator raises; except puts an error event, finally the
\* sentinel
RelayRaises(r) ==
    /\ reqs[r].pc = "running"
    /\ reqs' = [reqs EXCEPT ![r].pc = "finished"]
    /\ cache' = cache \o <<"error", None>>
    /\ ad' = [ad EXCEPT !.enqueued = Append(@, "error")]
    /\ UNCHANGED now

\* response generator: queue.get() returns within the timeout
StreamGet ==
    /\ ad.pc = "streaming"
    /\ StreamContinues(ad.completed, cache)
    /\ cache # <<>>
    /\ cache' = Tail(cache)
    /\ ad' = IF Head(cache) = None
               THEN [ad EXCEPT !.completed = @ + 1]
               ELSE [ad EXCEPT !.emitted = Append(@, Head(cache))]
    /\ UNCHANGED <<reqs, now>>

\* response generator: queue.get() times out and the loop goes round
StreamTimeout ==
    /\ ad.pc = "streaming"
    /\ StreamContinues(ad.completed, cache)
    /\ cache = <<>>
    /\ UNCHANGED <<ad, reqs, cache, now>>

\* response generator: the loop ends and scan_complete is sent
StreamComplete ==
    /\ ad.pc = "streaming"
    /\ ~StreamContinues(ad.completed, cache)
    /\ ad' = [ad EXCEPT !.pc = "complete",
                        !.emitted = Append(@, "scan_complete"),
                        !.total_items = ad.total_items_counter]
    /\ UNCHANGED <<reqs, cache, now>>

RelayStep(r) == RelayEvent(r) \/ RelayEnds(r) \/ RelayRaises(r)

ScanNext ==
    \/ \E r \in spiders : RelayEvent(r)
    \/ \E r \in spiders : RelayEnds(r)
    \/ \E r \in spiders : RelayRaises(r)
    \/ StreamGet
    \/ StreamTimeout
    \/ StreamComplete

\* Every source generator terminates, and the event loop runs every task
\* that can run: a relay whose generator has an event or has ended takes
\* its step, and the response generator takes an event that is in the
\* queue and leaves the loop when its condition is false.
ScanSpec ==
    /\ ScanInit
    /\ [][ScanNext]_vars
    /\ \A r \in spiders : WF_vars(RelayStep(r))
    /\ WF_vars(StreamGet)
    /\ WF_vars(StreamComplete)

(***************************************************************************)
(* Properties of the adapters                                              *)
(***************************************************************************)
Returned == ad.pc = "done" /\ ad.out.status = "returned"

Refined == Returned /\ Len(ad.attempts) = 2

Urls(results) == {results[i].url : i \in 1..Len(results)}

\* The URLs the fallback query brought that the strict results did not have.
NewUrls == Urls(ad.fallback) \ Urls(ad.strict)

\* The strict results plus the fallback results whose URL was not present
\* yet: not among the strict results, not earlier in the fallback results.
MergedSet ==
    Range(ad.strict)
      \cup {ad.fallback[i] : i \in {j \in 1..Len(ad.fallback) :
                /\ ad.fallback[j].url \in NewUrls
                /\ \A h \in 1..(j - 1) : ad.fallback[h].url # ad.fallback[j].url}}

\* C4: an adapter's search tells "no results" from a failed backend: when a
\* backend query failed (status other than 200, network exception, timeout)
\* the call fails instead of returning, and it returns nothing only when
\* the backend answered every query.
C4_BackendFailureFailsTheCall ==
    ad.pc = "done" =>
        /\ (\E i \in 1..Len(ad.attempts) : ~ad.attempts[i].ok)
              => ad.out.status = "raised"
        /\ (ad.out.status = "returned" /\ ad.out.results = << >>)
              => \A i \in 1..Len(ad.attempts) : ad.attempts[i].ok

\* C5 as stated: at most two backend queries in one call, the second one
\* exactly when the first returned fewer than 5 results, and the second one
\* with the threshold at its minimum, letting a native score of 0 through.
C5_RetryRelaxesToZero ==
    /\ Len(ad.attempts) <= 2
    /\ Returned =>
         /\ Len(ad.attempts) = 2 <=> Len(ad.strict) < 5
         /\ Len(ad.attempts) = 2 => MinAdmitted(ad.attempts[2].filter) = 0

\* C5 as amended: at most two backend queries in one call, issued one after
\* the other; the second one exactly when the first returned fewer than 5
\* results; the first under the adapter's default threshold and the second
\* under its fallback threshold (GitHub stars > 0, HackerNews points >= 5,
\* Dev.to reactions >= 0); nothing is queried after the second.
C5_RetryOnceAtFallbackThreshold ==
    /\ Len(ad.attempts) <= 2
    /\ ad.pc = "start" => Len(ad.attempts) = 0
    /\ ad.pc = "refine" => Len(ad.attempts) = 1 /\ Len(ad.strict) < 5
    /\ ad.pc = "return" => Len(ad.attempts) \in {1, 2}
    /\ Returned =>
         /\ Len(ad.attempts) = 2 <=> Len(ad.strict) < 5
         /\ ad.attempts[1].filter =
               (CASE ad.kind = GitHub     -> [op |-> ">", n |-> 5]
                  [] ad.kind = HackerNews -> [op |-> ">=", n |-> 10]
                  [] OTHER                -> [op |-> ">=", n |-> 5])
         /\ Len(ad.attempts) = 2 =>
               ad.attempts[2].filter =
                 (CASE ad.kind = GitHub     -> [op |-> ">", n |-> 0]
                    [] ad.kind = HackerNews -> [op |-> ">=", n |-> 5]
                    [] OTHER                -> [op |-> ">=", n |-> 0])

\* A HackerNews call that retried after 4 strict results.
C5_Witness ==
    /\ Refined
    /\ ad.kind = HackerNews
    /\ Len(ad.strict) = 4
    /\ ad.attempts[1].ok /\ ad.attempts[2].ok

\* C6 as stated: after a retry the call's results are the strict results
\* plus the fallback results whose URL the strict results did not have, the
\* strict occurrence kept where a URL collides.
C6_MergedIsStrictPlusNew ==
    Refined =>
        /\ Len(ad.out.results) = Len(ad.strict) + Cardinality(NewUrls)
        /\ Range(ad.strict) \subseteq Range(ad.out.results)
        /\ Range(ad.out.results) = MergedSet

\* The adapter's sort key of a result.
SortKey(kind, r) == IF kind = GitHub THEN KeyScore(r) ELSE KeyRelevanceScore(r)

\* C6 as amended: after a retry the call's results are the first `limit`, in
\* the adapter's sort order, of the strict results plus the fallback results
\* whose URL the strict results did not have, the strict occurrence kept
\* where a URL collides; 2 strict and 8 fallback results of which 3 repeat
\* strict URLs give 7 results when the limit is 7 or more.
C6_MergedTruncatedToLimit ==
    Refined =>
        LET out == ad.out.results
            full == Len(ad.strict) + Cardinality(NewUrls)
            merged == MergedSet
        IN /\ Len(out) = Min(ad.limit, full)
           /\ Range(out) \subseteq merged
           /\ full <= ad.limit => Range(ad.strict) \subseteq Range(out)
           /\ \A i, j \in 1..Len(out) :
                 (i < j /\ out[i].url = out[j].url)
                    => out[i] \in Range(ad.strict) /\ out[j] \in Range(ad.strict)
           /\ \A i, j \in 1..Len(out) :
                 i < j => SortKey(ad.kind, out[i]) >= SortKey(ad.kind, out[j])
           /\ \A r \in merged \ Range(out) : \A i \in 1..Len(out) :
                 SortKey(ad.kind, out[i]) >= SortKey(ad.kind, r)
           /\ (/\ Len(ad.strict) = 2
               /\ Len(ad.fallback) = 8
               /\ Cardinality({i \in 1..8 : ad.fallback[i].url \in Urls(ad.strict)}) = 3
               /\ ad.limit >= 7) => Len(out) = 7

\* 2 strict results, 8 fallback results of which 3 repeat strict URLs, and
\* the merged 7 returned.
C6_Witness ==
    /\ Refined
    /\ Len(ad.strict) = 2
    /\ Len(ad.fallback) = 8
    /\ Cardinality({i \in 1..Len(ad.fallback) : ad.fallback[i].url \in Urls(ad.strict)}) = 3
    /\ Len(ad.out.results) = 7

(***************************************************************************)
(* Properties of the searches                                              *)
(***************************************************************************)
Answered(r) == reqs[r].pc = "done" /\ reqs[r].resp.kind = "ok"

\* A URL without its query string.
NormalizedUrl(result) == result.url[1]

\* C1: no result list a search returns (search, search_with_intent,
\* _search_with_sources) holds two results with the same normalized URL,
\* the URL without its query string.
C1_NoTwoResultsShareNormalizedUrl ==
    \A r \in Requests :
        Answered(r) =>
            \A i, j \in 1..Len(reqs[r].resp.results) :
                i # j => NormalizedUrl(reqs[r].resp.results[i])
                            # NormalizedUrl(reqs[r].resp.results[j])

\* A request of SynthSearchServiceV2 whose gather ended with the call of
\* source a raised and the call of source b returned.
OneFailedOneReturned(r, a, b) ==
    /\ reqs[r].pc = "done"
    /\ reqs[r].path \in {"search", "search_with_intent"}
    /\ Len(reqs[r].tasks) = 2
    /\ a # b
    /\ reqs[r].tasks[a].status = "raised"
    /\ reqs[r].tasks[b].status = "returned"

C3_EverySearchCompletes ==
    \A r \in HangRequests : (reqs[r].pc = "gather") ~> (reqs[r].pc = "done")

\* The second search of a query: request r2 arrives when request r1 has
\* answered and stored its results, the row r1 stored is the one live row
\* of r2's cache key, and the cache lookup of r2 does not fail.
SecondSearch(r1, r2) ==
    /\ r1 # r2
    /\ reqs[r1].pc = "done"
    /\ reqs[r1].wrote # 0
    /\ reqs[r2].pc = "idle"
    /\ reqs'[r2].pc # "idle"
    /\ reqs'[r2].query = reqs[r1].query
    /\ LiveRows(HashQuery(reqs'[r2].query, reqs'[r2].intent)) = {reqs[r1].wrote}
    /\ ~StartReadFails(r2)

\* C8: when a query is searched a second time while the row of the first
\* search is live and the cache answers, the second response has
\* from_cache true and the results of the first response, in their order.
C8_SecondSearchAnswersFromCache ==
    [][\A r1, r2 \in Requests :
          SecondSearch(r1, r2) =>
              /\ reqs'[r2].pc = "done"
              /\ reqs'[r2].resp.from_cache
              /\ ~reqs[r1].resp.from_cache
              /\ reqs'[r2].resp.results = reqs[r1].resp.results
              /\ reqs'[r2].resp.total_found = reqs[r1].resp.total_found]_vars

\* A search answered 13 hours after the first search of its query, from
\* the row the first one stored, with two or more results.
C8_Witness ==
    \E r1, r2 \in Requests :
        /\ r1 # r2
        /\ Answered(r1) /\ Answered(r2)
        /\ reqs[r1].wrote # 0
        /\ reqs[r1].path = "search" /\ reqs[r2].path = "search"
        /\ reqs[r2].query = reqs[r1].query
        /\ reqs[r2].resp.from_cache
        /\ Len(reqs[r2].resp.results) >= 2
        /\ reqs[r2].resp.results = reqs[r1].resp.results
        /\ cache[reqs[r1].wrote].expires < now + CacheTtlHours

\* C9: a search that the cache fails (a read that raises, a write that
\* raises) answers with its results all the same, on search,
\* search_with_intent and _search_with_sources.
C9_CacheFailureNeverAborts ==
    \A r \in Requests : reqs[r].pc = "done" => reqs[r].resp.kind = "ok"

(***************************************************************************)
(* Properties of the cache service                                         *)
(***************************************************************************)
\* Caller c's get_cached_results returns, its select having succeeded.
GetReturns(c) ==
    /\ reqs[c].pc = "idle"
    /\ reqs'[c] # reqs[c]
    /\ reqs'[c].ok

\* The rows stored under a key so far, live or not.
StoredRows(key) == {i \in 1..Len(cache) : cache[i].key = key}

Latest(rows) == CHOOSE i \in rows : \A j \in rows : j <= i

\* C7: once cache_results has stored R under k, get_cached_results for k
\* returns R for as long as the 24 hours of that row last, and none
\* afterwards, the row being still in the table.
C7_RoundTripWithinTtl ==
    [][\A c \in Callers :
          (GetReturns(c) /\ StoredRows(reqs'[c].key) # {}) =>
              LET last == cache[Latest(StoredRows(reqs'[c].key))]
              IN IF last.expires >= now
                 THEN reqs'[c].ret = Found(last)
                 ELSE reqs'[c].ret = NoneFound]_vars

\* C10: when no hit is being counted, the hit_count of every row is the
\* number of hits served from it.
C10_NoIncrementLost ==
    \A i \in 1..Len(cache) :
        (\A c \in Callers : reqs[c].pc = "idle" \/ reqs[c].row # i)
            => cache[i].hit_count = cache[i].counted

(***************************************************************************)
(* Properties of the classifier                                            *)
(***************************************************************************)
Classified == ad.pc = "classified"

\* C11: for every query, the empty string included, the confidence classify
\* returns lies in [0, 0.98].
C11_ConfidenceWithinBounds ==
    Classified => 0 <= ad.result.confidence /\ ad.result.confidence <= 98

\* A query whose contributions add up to 1.00 and whose confidence is 0.98.
C11_Witness ==
    /\ Classified
    /\ ad.query = <<"subreddit", "tutorial", "python", "bitcoin">>
    /\ ad.result.confidence = 98

\* C12: a query with an explicit marker of a single source gets exactly
\* that source as its source list.
C12_ExplicitMarkerIsExclusive ==
    (Classified /\ Len(DetectSources(ad.query)) = 1)
        => ad.result.sources = DetectSources(ad.query)

\* C13: a query in which an explicit source pattern matches gets a
\* confidence of 0.7 or more.
C13_ExplicitSourceGivesHighConfidence ==
    (Classified /\ DetectSources(ad.query) # << >>) => ad.result.confidence >= 70

Scored == ad.pc = "scored"

\* C15: the candidate with the query appended to its title never scores
\* lower than the candidate itself.  Stated for the scores that depend on
\* the texts alone, those without embeddings.
C15_AppendingTheQueryNeverLowersTheScore ==
    Scored /\ ~ad.use_embeddings => ad.appended >= ad.score

\* C16: calculate_relevance returns a score in [0, 100].
C16_ScoreWithinBounds ==
    Scored => /\ 0 <= ad.score /\ ad.score <= 10000
              /\ 0 <= ad.appended /\ ad.appended <= 10000

\* The title "rust web" under the query "rust web": 45 + 35 for the terms,
\* 20 for matching both, times 1.1 is 110, returned as 100.
C16_Witness ==
    /\ Scored
    /\ ~ad.use_embeddings
    /\ ad.title = <<"rust", "web">>
    /\ ad.body = << >> /\ ad.tags = << >>
    /\ ParseTerms(ad.query) = <<"rust", "web">> /\ ParsePhrases(ad.query) = << >>
    /\ ad.metadata.stars = 0
    /\ ad.score = 10000

(***************************************************************************)
(* Properties of the merge                                                 *)
(***************************************************************************)
CompletedFresh(r) ==
    reqs[r].pc = "done" /\ reqs[r].resp.kind = "ok" /\ ~reqs[r].resp.from_cache

\* Two searches with the same entry point, the same intent and the same
\* outcome of every source.
SameInputs(a, b) ==
    /\ reqs[a].path = reqs[b].path
    /\ reqs[a].intent = reqs[b].intent
    /\ Len(reqs[a].tasks) = Len(reqs[b].tasks)
    /\ \A i \in 1..Len(reqs[a].tasks) :
          /\ reqs[a].tasks[i].source = reqs[b].tasks[i].source
          /\ reqs[a].tasks[i].status = reqs[b].tasks[i].status
          /\ reqs[a].tasks[i].results = reqs[b].tasks[i].results

MergeIndependentOfCompletionOrder ==
    \A a, b \in Requests :
        CompletedFresh(a) /\ CompletedFresh(b) /\ SameInputs(a, b)
            => reqs[a].resp.results = reqs[b].resp.results

\* The key the request's results were sorted on.
MergeKey(r, x) ==
    IF reqs[r].intent.time_filter # None THEN KeyDateScore(x) ELSE KeyScore(x)

\* Results with equal keys stand in the order their sources have in "order".
TiesInOrderOf(r, order) ==
    LET results == reqs[r].resp.results
    IN \A i, j \in 1..Len(results) :
          i < j /\ MergeKey(r, results[i]) = MergeKey(r, results[j])
            => Position(order, results[i].source) <= Position(order, results[j].source)

\* C17 as stated: the merged list does not depend on the order in which
\* the source calls complete, and results with equal sort keys are ordered
\* by the registration order of their sources.
C17_TiesInRegistrationOrder ==
    /\ MergeIndependentOfCompletionOrder
    /\ \A r \in Requests : CompletedFresh(r) => TiesInOrderOf(r, RegistrationOrder)

\* C17 amended: the merged list does not depend on the order in which the
\* source calls complete, and results with equal sort keys are ordered by
\* the place of their sources in the intent's source list.
C17_TiesInIntentOrder ==
    /\ MergeIndependentOfCompletionOrder
    /\ \A r \in Requests : CompletedFresh(r) => TiesInOrderOf(r, reqs[r].intent.sources)

\* Two searches with the same inputs whose source calls completed in
\* different orders, with results of both sources tied on the key.
C17_Witness ==
    /\ CompletedFresh(1) /\ CompletedFresh(2) /\ SameInputs(1, 2)
    /\ Len(reqs[1].tasks) = 2
    /\ reqs[1].tasks[1].at # reqs[2].tasks[1].at
    /\ \E i, j \in 1..Len(reqs[1].resp.results) :
          /\ i < j
          /\ MergeKey(1, reqs[1].resp.results[i]) = MergeKey(1, reqs[1].resp.results[j])
          /\ reqs[1].resp.results[i].source # reqs[1].resp.results[j].source

(***************************************************************************)
(* Properties of the responses                                             *)
(***************************************************************************)
\* The limit the query asks for, 15 when it names none.
RequestedLimit(intent) == IF intent.limit = NoLimit THEN DefaultLimit ELSE intent.limit

\* C18: every response holds at most the requested limit of results,
\* total_found is the number of results returned, and the row a search
\* writes to the cache holds the returned results.
C18_ResponseWithinRequestedLimit ==
    \A r \in Requests :
        Answered(r) =>
            /\ Len(reqs[r].resp.results) <= RequestedLimit(reqs[r].intent)
            /\ reqs[r].resp.total_found = Len(reqs[r].resp.results)
            /\ reqs[r].wrote # 0 => cache[reqs[r].wrote].results = reqs[r].resp.results

(***************************************************************************)
(* Properties of the rate limit                                            *)
(***************************************************************************)
\* The user's queries executed in the 24 hours that start at t.
ExecutedIn(t) == SumOver(ad, {u \in Times : t <= u /\ u < t + WindowHours})

\* C19: no more than 50 of a user's queries are executed within any 24
\* hours, and a request that arrives when 50 are counted is rejected
\* before any search runs (with 429, or with 503 when the global limit
\* rejects it first).
C19_AtMostFiftyQueriesPerDay ==
    /\ \A t \in Times : ExecutedIn(t) <= DailyLimit
    /\ \A r \in RateRequests :
          reqs[r].pc # "idle" /\ reqs[r].counted >= DailyLimit
              => reqs[r].pc \in {"429", "503"}

(***************************************************************************)
(* Properties of the cache rows                                            *)
(***************************************************************************)
\* Every source call of the search ended in an exception.
EverySourceFailed(tasks) ==
    tasks # << >> /\ \A i \in 1..Len(tasks) : tasks[i].status = "raised"

\* C20: every cache row was written by a search that went to the sources
\* and in which not every source failed.
C20_NoEntryWhenEverySourceFailed ==
    \A i \in 1..Len(cache) :
        \E r \in Requests :
            /\ reqs[r].pc = "done"
            /\ reqs[r].wrote = i
            /\ ~reqs[r].resp.from_cache
            /\ ~EverySourceFailed(reqs[r].tasks)

(***************************************************************************)
(* Properties of the intent and of the source list                         *)
(***************************************************************************)
IntentTypes == Range(PriorityOrder)

ForcedSources(q, entities) ==
    Range(DetectSources(q))
        \cup (IF entities.cryptocurrencies # << >> THEN {"crypto"} ELSE {})
        \cup (IF entities.stocks # << >> THEN {"stocks"} ELSE {})

\* C22: every explicit and every entity-implied source is in the final
\* list and precedes every source that only the routing table gave; the
\* list has no duplicates.
C22_ForcedSourcesComeFirst ==
    Classified =>
        LET sources == ad.result.sources
            forced == ForcedSources(ad.query, ad.result.entities)
        IN /\ forced \subseteq Range(sources)
           /\ \A i, j \in 1..Len(sources) :
                 sources[i] \in forced /\ sources[j] \notin forced => i < j
           /\ \A i, j \in 1..Len(sources) : sources[i] = sources[j] => i = j

(***************************************************************************)
(* Properties of the order of the results                                  *)
(***************************************************************************)
\* The key the results are to be sorted on, as one number: (published
\* date, relevance score) for a time-sensitive intent and (relevance
\* score, native score) otherwise.
SpecifiedKey(intent, x) ==
    IF intent.time_filter # None THEN DateKey(x) * 1000 + x.relevance_score
    ELSE KeyRelevanceScore(x)

\* C23: no adjacent pair of a returned list stands against the order
\* (relevance score, native score) descending, or (published date,
\* relevance score) descending when the intent is time-sensitive.
C23_SortedByRelevanceThenScore ==
    \A r \in Requests :
        Answered(r) =>
            LET results == reqs[r].resp.results
            IN \A i \in 1..(Len(results) - 1) :
                  SpecifiedKey(reqs[r].intent, results[i])
                      >= SpecifiedKey(reqs[r].intent, results[i + 1])

\* C24: of the results two sources return under one url, the returned
\* list holds that of the source that comes first in intent.sources,
\* whatever the scores.
C24_FirstSourceWinsOnCollision ==
    \A r \in Requests :
        CompletedFresh(r) =>
            LET results == reqs[r].resp.results
                tasks == reqs[r].tasks
            IN \A k \in 1..Len(results) : \A i, j \in 1..Len(tasks) :
                  (/\ i < j
                   /\ tasks[j].source = results[k].source
                   /\ tasks[i].status = "returned")
                      => \A n \in 1..Len(tasks[i].results) :
                            tasks[i].results[n].url # results[k].url

(***************************************************************************)
(* Properties of the cache key                                             *)
(***************************************************************************)
Hashed == ad.pc = "hashed"

\* The two lists hold the same names the same number of times.
SameNames(s, t) ==
    \A n \in Range(s) \cup Range(t) :
        Cardinality({i \in 1..Len(s) : s[i] = n}) = Cardinality({i \in 1..Len(t) : t[i] = n})

\* The two requests agree on the four components of the key.
SameComponents(a, b) ==
    /\ Strip(Lower(a.query)) = Strip(Lower(b.query))
    /\ SameNames(a.intent.sources, b.intent.sources)
    /\ SameNames(a.intent.keywords, b.intent.keywords)
    /\ a.intent.language = b.intent.language

\* C25: two requests get the same key exactly when they agree on the
\* lower-cased trimmed query, the sources and the keywords up to order,
\* and the language; time filter and limit play no part.
C25_KeyIsFunctionOfFourComponents ==
    Hashed => (ad.key1 = ad.key2 <=> SameComponents(ad.first, ad.second))

\* Two requests that differ in letter case, surrounding whitespace, the
\* order of sources and of keywords, the time filter and the limit, with
\* one key.
C25_Witness ==
    /\ Hashed
    /\ ad.first.query = <<"a">> /\ ad.second.query = <<" ", "A">>
    /\ ad.first.intent.sources = <<GitHub, HackerNews>>
    /\ ad.second.intent.sources = <<HackerNews, GitHub>>
    /\ ad.first.intent.keywords = <<"api", "web">>
    /\ ad.second.intent.keywords = <<"web", "api">>
    /\ ad.first.intent.time_filter # ad.second.intent.time_filter
    /\ ad.first.intent.limit # ad.second.intent.limit
    /\ ad.key1 = ad.key2

(***************************************************************************)
(* Properties of the semantic blend and of the term bonus                  *)
(***************************************************************************)
\* The query has a phrase or a term, so that the candidate is scored on
\* its texts.
ScoredOnTexts == Scored /\ (ParsePhrases(ad.query) # << >> \/ ParseTerms(ad.query) # << >>)

\* C26: when no semantic score is available (embeddings disabled, or an
\* embedding could not be obtained) the returned score is the keyword
\* score alone, capped at 100.
C26_KeywordScoreAloneWithoutSemantic ==
    ScoredOnTexts /\ ~ad.available
        => ad.score = Min(KeywordScore(ad.title, ad.body, ad.tags, ad.query, ad.metadata),
                          10000)

\* The comprehension bonus by the number of distinct terms that match.
DistinctTermBonus(terms, title, body, tags) ==
    LET matched == {t \in Range(terms) : TermMatched(t, title, body, tags)}
    IN IF Cardinality(matched) > 1 THEN Cardinality(matched) * 10 ELSE 0

\* C27: the score of a query of bare terms, without embeddings, holds the
\* bonus of 10 per distinct matched term when more than one distinct term
\* matches and no such bonus otherwise; a repeated term counts once.
C27_BonusCountsDistinctTerms ==
    (/\ ScoredOnTexts
     /\ ~ad.use_embeddings
     /\ ParsePhrases(ad.query) = << >>)
        => LET terms == ParseTerms(ad.query)
               matched == SumTermScores(terms, ad.title, ad.body, ad.tags)
                             + DistinctTermBonus(terms, ad.title, ad.body, ad.tags)
           IN ad.score = Min((IF Len(terms) > 1 THEN matched * 110 ELSE matched * 100)
                                + ScoreMetadata(ad.metadata) * 100, 10000)

(***************************************************************************)
(* Properties of the router                                                *)
(***************************************************************************)
\* C28: the agents are invoked in the order primary, then fallbacks in
\* list order; the response of the first agent that succeeds is returned
\* and no agent is invoked after it; agents that fail or raise are
\* skipped; when none succeeds the response has success false and the
\* error "All agents failed".
C28_FirstSuccessfulAgentAnswers ==
    ad.pc \in {"execute", "done"} =>
        LET order == << ad.primary_agent >> \o ad.fallback_agents
            n == Len(ad.invoked)
        IN /\ n <= Len(order)
           /\ \A i \in 1..n : ad.invoked[i].agent = order[i]
           /\ \A i \in 1..(n - 1) : ad.invoked[i].outcome # "success"
           /\ ad.pc = "execute" => n < Len(order) /\ (n > 0 => ad.invoked[n].outcome # "success")
           /\ ad.pc = "done" =>
                IF ad.invoked[n].outcome = "success"
                THEN ad.resp.success /\ ad.resp.agent_type = order[n]
                ELSE /\ n = Len(order)
                     /\ ~ad.resp.success
                     /\ ad.resp.error = "All agents failed"

\* The primary agent raises, the first fallback returns failure and the
\* second fallback answers.
C28_Witness ==
    /\ ad.pc = "done"
    /\ Len(ad.fallback_agents) = 2
    /\ Len(ad.invoked) = 3
    /\ ad.invoked[1].outcome = "raises"
    /\ ad.invoked[2].outcome = "failure"
    /\ ad.resp.success
    /\ ad.resp.agent_type = ad.fallback_agents[2]

(***************************************************************************)
(* Properties of the rows of one key                                       *)
(***************************************************************************)
\* C29: the cache never holds two unexpired rows of one key.
C29_OneLiveRowPerKey ==
    \A i, j \in 1..Len(cache) :
        (/\ cache[i].key = cache[j].key
         /\ cache[i].expires >= now
         /\ cache[j].expires >= now) => i = j

(***************************************************************************)
(* The /api/scan stream.                                                   *)
(***************************************************************************)
CountOf(s, e) == Cardinality({i \in 1..Len(s) : s[i] = e})

\* what has been sent once scan_complete is out: everything the relays put
\* in the queue, in queue order, then the one scan_complete; every relay
\* has finished; the total is the number of item events sent
ScanCompleteIsFaithful ==
    ad.pc = "complete" =>
        /\ ad.emitted = Append(ad.enqueued, "scan_complete")
        /\ CountOf(ad.emitted, "scan_complete") = 1
        /\ \A r \in spiders : reqs[r].pc = "finished"
        /\ ad.total_items = CountOf(ad.emitted, "item")

\* C30: in the /api/scan stream, under every interleaving of the relay
\* tasks, every event a relay put in the queue is sent to the client before
\* the single scan_complete event, scan_complete is sent only after every
\* relay has finished (normally or with an error), its total_items is the
\* number of item events sent, and when every source generator terminates
\* the stream reaches scan_complete.
C30_ScanStreamCompletesFaithfully ==
    /\ []ScanCompleteIsFaithful
    /\ <>(ad.pc = "complete")

\* scan_complete is out after one source ended normally and another with
\* an error, with items of two sources sent to the client
C30_Witness ==
    /\ ad.pc = "complete"
    /\ CountOf(ad.emitted, "error") = 1
    /\ CountOf(ad.emitted, "source_connected") = 2
    /\ ad.total_items = 3

====
